---- MODULE Spec2Model ----
(***************************************************************************)
(* Model of the Streamlit mental-health assistant (src/app.py): the        *)
(* configuration loader, the crisis-keyword matcher, the history trimmer   *)
(* and the script run that handles the sidebar and one chat turn.          *)
(*                                                                         *)
(* Text is modelled as a sequence of strings.  User input is a sequence of *)
(* single characters, so that lower-casing and substring search are        *)
(* computed character by character; fixed template text and configuration  *)
(* values are single multi-character elements.                             *)
(***************************************************************************)
EXTENDS Integers, Sequences, FiniteSets, TLC

VARIABLES
    messages,       \* st.session_state.messages
    envKey,         \* whether os.environ["OPENAI_API_KEY"] holds a non-empty value
    app_config,     \* config["app"], read once at import
    last,           \* record of what the latest script run did
    cfgFile,        \* the config.toml on disk given to load_config
    default_config, \* the module-level DEFAULT_CONFIG object (mutable dict)
    config,         \* the object load_config returned
    cfgPc,          \* "start" | "loaded"
    tMessages,      \* argument `messages` of trim_messages_for_tokens
    tMax,           \* argument `max_exchanges` of trim_messages_for_tokens
    tResult,        \* its return value
    tPc,            \* "start" | "done"
    mText,          \* argument `text` of contains_crisis_keywords
    mResult,        \* its return value
    mPc             \* "start" | "done"

sessVars == <<messages, envKey, app_config, last>>
cfgVars == <<cfgFile, default_config, config, cfgPc>>
trimVars == <<tMessages, tMax, tResult, tPc>>
matchVars == <<mText, mResult, mPc>>
vars == <<messages, envKey, app_config, last, cfgFile, default_config, config, cfgPc,
          tMessages, tMax, tResult, tPc, mText, mResult, mPc>>

----------------------------------------------------------------------------
(* Bounds of the model *)

\* longest store a turn may still extend to
MaxMsgs == 10
\* longest padding put before and after a phrase in the matcher's inputs
MaxPad == 1
\* longest store given to the trimmer (besides the 21-message store)
MaxStoreLen == 3
\* largest max_exchanges given to the trimmer (besides 6)
MaxExchangesArg == 3

----------------------------------------------------------------------------
(* Characters and str.lower() *)

UpperChars ==
    <<"A","B","C","D","E","F","G","H","I","J","K","L","M",
      "N","O","P","Q","R","S","T","U","V","W","X","Y","Z">>
LowerChars ==
    <<"a","b","c","d","e","f","g","h","i","j","k","l","m",
      "n","o","p","q","r","s","t","u","v","w","x","y","z">>

LowerChar(c) ==
    IF \E n \in 1..Len(UpperChars) : UpperChars[n] = c
    THEN LowerChars[CHOOSE n \in 1..Len(UpperChars) : UpperChars[n] = c]
    ELSE c

UpperChar(c) ==
    IF \E n \in 1..Len(LowerChars) : LowerChars[n] = c
    THEN UpperChars[CHOOSE n \in 1..Len(LowerChars) : LowerChars[n] = c]
    ELSE c

\* a str.lower() that leaves the text as it is
LowerKeepsCase(s) == s

\* str.lower()
Lower(s) == [i \in 1..Len(s) |-> LowerChar(s[i])]

\* str.upper(), used only to build inputs
Upper(s) == [i \in 1..Len(s) |-> UpperChar(s[i])]

\* an optional text: Python None or a str
None == [none |-> TRUE, s |-> <<>>]
Some(s) == [none |-> FALSE, s |-> s]

\* Python truthiness of an optional text
Truthy(o) == ~o.none /\ o.s # <<>>

----------------------------------------------------------------------------
(* Crisis detection *)

CRISIS_KEYWORDS ==
    << <<"k","i","l","l"," ","m","y","s","e","l","f">>,
       <<"s","u","i","c","i","d","e">>,
       <<"e","n","d"," ","i","t"," ","a","l","l">>,
       <<"w","a","n","t"," ","t","o"," ","d","i","e">>,
       <<"h","a","r","m"," ","m","y","s","e","l","f">>,
       <<"s","e","l","f"," ","h","a","r","m">>,
       <<"h","u","r","t"," ","m","y","s","e","l","f">>,
       <<"n","o","t"," ","w","a","n","t"," ","t","o"," ","l","i","v","e">>,
       <<"i","'","m"," ","g","o","i","n","g"," ","t","o"," ","k","i","l","l"," ","m","y","s","e","l","f">>,
       <<"i"," ","w","a","n","t"," ","t","o"," ","d","i","e">>,
       <<"s","u","i","c","i","d","a","l">> >>

\* a search that only looks at the start of the text (str.startswith)
StartsWith(k, s) == Len(k) <= Len(s) /\ SubSeq(s, 1, Len(k)) = k

\* `k in s` for two str: scan the offsets from i on
RECURSIVE FindFrom(_, _, _)
FindFrom(k, s, i) ==
    IF i + Len(k) - 1 > Len(s) THEN FALSE
    ELSE IF SubSeq(s, i, i + Len(k) - 1) = k THEN TRUE
    ELSE FindFrom(k, s, i + 1)

\* `k in s`
In(k, s) == FindFrom(k, s, 1)

\* contains_crisis_keywords(text), text an optional str
contains_crisis_keywords(text) ==
    LET text_lower == Lower(IF Truthy(text) THEN text.s ELSE <<>>)
    IN  \E j \in 1..Len(CRISIS_KEYWORDS) : In(CRISIS_KEYWORDS[j], text_lower)

----------------------------------------------------------------------------
(* Configuration: DEFAULT_CONFIG and load_config.  Option values are kept as  *)
(* strings; nothing in the program computes with them.                        *)

DEFAULT_CONFIG ==
    [ app   |-> [ title           |-> "Mental Health Assistant",
                  warning_message |-> "This is not a substitute for professional care.",
                  crisis_hotline  |-> "Local crisis hotline (replace in config)",
                  crisis_text     |-> "Text HELP to 741741 (replace per country)" ],
      model |-> [ default_model   |-> "gpt-4o-mini",
                  max_tokens      |-> "512",
                  temperature     |-> "0.7" ],
      style |-> [ background_color |-> "#FFFFFF" ] ]

\* the order in which `for key in DEFAULT_CONFIG` visits the sections
SectionOrder == <<"app", "model", "style">>

\* a value a configuration file sets an option to
CustomValue == "set in config.toml"

\* the tables a file may hold under section s: any subset of its options set
Tables(s) ==
    { [o \in S |-> CustomValue] : S \in SUBSET (DOMAIN DEFAULT_CONFIG[s]) }

\* what a parsed file holds under key s: nothing, a table, or a scalar such as
\* `model = 5`, on which dict.update raises TypeError
SectionValues(s) ==
    { [kind |-> "absent", table |-> <<>>], [kind |-> "scalar", table |-> <<>>] }
    \cup { [kind |-> "table", table |-> t] : t \in Tables(s) }

NoSections ==
    [ app   |-> [kind |-> "absent", table |-> <<>>],
      model |-> [kind |-> "absent", table |-> <<>>],
      style |-> [kind |-> "absent", table |-> <<>>] ]

\* no config.toml next to the script
NoFile == [exists |-> FALSE, parses |-> FALSE, sections |-> NoSections]

\* a config.toml on which toml.load raises
UnparsableFile == [exists |-> TRUE, parses |-> FALSE, sections |-> NoSections]

ConfigFiles ==
    { NoFile, UnparsableFile }
    \cup { [exists |-> TRUE, parses |-> TRUE,
            sections |-> [app |-> a, model |-> m, style |-> y]] :
           a \in SectionValues("app"), m \in SectionValues("model"),
           y \in SectionValues("style") }

\* dict.update(t) on dict d
Update(d, t) ==
    [o \in (DOMAIN d) \cup (DOMAIN t) |-> IF o \in DOMAIN t THEN t[o] ELSE d[o]]

\* the loop of load_config from section i on.  merged is a shallow copy of
\* DEFAULT_CONFIG, so merged[key] IS DEFAULT_CONFIG[key] and update() changes
\* both; d is the state of that shared object.
RECURSIVE MergeSections(_, _, _)
MergeSections(sections, d, i) ==
    IF i > Len(SectionOrder) THEN [raised |-> FALSE, d |-> d, merged |-> d]
    ELSE LET key == SectionOrder[i]
         IN  IF sections[key].kind = "absent"
             THEN MergeSections(sections, d, i + 1)
             ELSE IF sections[key].kind = "table"
             THEN MergeSections(sections,
                                [d EXCEPT ![key] = Update(d[key], sections[key].table)],
                                i + 1)
             ELSE [raised |-> TRUE, d |-> d, merged |-> d]

\* load_config(path) with DEFAULT_CONFIG in state d:
\* [config |-> the object returned, defaults |-> DEFAULT_CONFIG afterwards]
load_config(file, d) ==
    IF ~file.exists THEN [config |-> d, defaults |-> d]
    ELSE IF ~file.parses THEN [config |-> d, defaults |-> d]
    ELSE LET r == MergeSections(file.sections, d, 1)
         IN  IF r.raised THEN [config |-> r.d, defaults |-> r.d]
             ELSE [config |-> r.merged, defaults |-> r.d]

\* dict.get(key, default)
Get(d, key, default) == IF key \in DOMAIN d THEN d[key] ELSE default

----------------------------------------------------------------------------
(* The conversation store *)

Msg(role, content) == [role |-> role, content |-> content]

\* the system_prompt f-string of initialize_session_state
system_prompt(app) ==
    << "You are a helpful, empathetic mental health information assistant. [...] Include this disclaimer in your first assistant message: ",
       Get(app, "warning_message", "None") >>

\* a session start that stores the greeting before the system message
GreetingFirst(app) ==
    << Msg("assistant",
           << "Hello - I'm here to provide general mental health information and support. ",
              Get(app, "warning_message", "None"), " How can I help you today?" >>),
       Msg("system", system_prompt(app)) >>

\* st.session_state.messages as initialize_session_state sets it
initialize_session_state(app) ==
    << Msg("system", system_prompt(app)),
       Msg("assistant",
           << "Hello - I'm here to provide general mental health information and support. ",
              Get(app, "warning_message", "None"), " How can I help you today?" >>) >>

\* the greeting the clear button stores
ClearedGreeting(app) ==
    Msg("assistant",
        << "Conversation cleared. ", Get(app, "warning_message", "None"),
           " How can I help you?" >>)

\* a clear that keeps no system message
ForgetSystem(msgs) == <<>>

\* `[sys_msg] if sys_msg else []`, sys_msg the first message of role system
KeepSystem(msgs) ==
    LET idx == {i \in 1..Len(msgs) : msgs[i].role = "system"}
    IN  IF idx = {} THEN <<>>
        ELSE << msgs[CHOOSE i \in idx : \A j \in idx : i <= j] >>

IsSystem(m) == m.role = "system"
NotSystem(m) == m.role # "system"

\* Python s[start:] for a list s and an int start
SliceFrom(s, start) ==
    LET n == Len(s)
        from == IF start < 0 THEN (IF n + start < 0 THEN 0 ELSE n + start)
                ELSE (IF start > n THEN n ELSE start)
    IN  SubSeq(s, from + 1, n)

\* the max_exchanges get_ai_response passes
MAX_EXCHANGES == 6

\* a trim that forgets the system message
TrimDropsSystem(msgs, max_exchanges) ==
    SliceFrom(SelectSeq(msgs, NotSystem), 0 - max_exchanges)

\* trim_messages_for_tokens(messages, max_exchanges)
trim_messages_for_tokens(msgs, max_exchanges) ==
    IF msgs = <<>> THEN msgs
    ELSE LET system == SelectSeq(msgs, IsSystem)
             others == SelectSeq(msgs, NotSystem)
             keep   == SliceFrom(others, 0 - max_exchanges)
         IN  system \o keep

----------------------------------------------------------------------------
(* The provider *)

\* handle_crisis_response()
handle_crisis_response(app) ==
    << "I hear that you're in a lot of pain, and I'm very concerned about your safety. Please reach out for immediate help: - Crisis Hotline: ",
       Get(app, "crisis_hotline", "Local crisis hotline"),
       " - Crisis Text Line: ",
       Get(app, "crisis_text", "Crisis text line"),
       " - Emergency Services: Call your local emergency number now if you are in immediate danger. You don't have to go through this alone - please contact someone who can help right now." >>

NoKeyMsg ==
    << "AI unavailable: no OpenAI API key configured. Provide one in the sidebar or set it as a secret." >>
TroubleMsg ==
    << "I'm having trouble responding right now. Please try again later." >>

\* what the environment of one script run decides:
\*   sdk       "missing": `import openai` failed; "modern": openai.OpenAI exists;
\*             "legacy": it does not, and the module itself is the client
\*   secrets   st.secrets.get("OPENAI_API_KEY"): "raises" (no secrets file),
\*             "key" or "empty"
\*   construct openai.OpenAI(api_key=...): "ok" or "raises"
Envs ==
    [ sdk : {"missing", "modern", "legacy"},
      secrets : {"raises", "key", "empty"},
      construct : {"ok", "raises"} ]

\* a text the provider answers with
ProviderReply == << "Try deep breathing." >>

\* the response objects of client.chat.completions.create
Resp(n, hasMessage, content, text) ==
    [nchoices |-> n, hasMessage |-> hasMessage, content |-> content, text |-> text]
Resps ==
    { Resp(1, TRUE, Some(ProviderReply), None),   \* chat shape, a text
      Resp(1, TRUE, Some(<<>>), None),            \* chat shape, the empty text
      Resp(1, TRUE, None, None),                  \* chat shape, content None
      Resp(1, FALSE, None, Some(ProviderReply)),  \* completion shape, choice.text
      Resp(0, FALSE, None, None) }                \* no choices

\* what the call does: raise, or return a response object
Calls ==
    { [raises |-> TRUE, resp |-> Resp(0, FALSE, None, None)] }
    \cup { [raises |-> FALSE, resp |-> r] : r \in Resps }

\* str(resp): the repr of the response object
Str(resp) ==
    << "ChatCompletion(" >>
    \o (IF resp.nchoices > 0 /\ resp.hasMessage /\ ~resp.content.none
        THEN resp.content.s ELSE <<>>)
    \o << ")" >>

\* the text extraction of get_ai_response (lines 214-223)
ExtractText(resp) ==
    IF resp.nchoices > 0 /\ resp.hasMessage /\ Truthy(resp.content)
    THEN resp.content.s
    ELSE IF resp.nchoices > 0 /\ Truthy(resp.text)
    THEN resp.text.s
    ELSE Str(resp)

\* get_openai_client(): [raised, client in {"none", "client", "module"}, envKey]
get_openai_client(env, key) ==
    IF env.sdk = "missing" THEN [raised |-> FALSE, client |-> "none", envKey |-> key]
    ELSE IF env.secrets = "raises"
    THEN [raised |-> TRUE, client |-> "none", envKey |-> key]
    ELSE LET api_key == IF env.secrets = "key" THEN TRUE ELSE key
         IN  IF ~api_key THEN [raised |-> FALSE, client |-> "none", envKey |-> key]
             ELSE IF env.sdk = "legacy"
             THEN [raised |-> FALSE, client |-> "module", envKey |-> TRUE]
             ELSE IF env.construct = "raises"
             THEN [raised |-> FALSE, client |-> "none", envKey |-> TRUE]
             ELSE [raised |-> FALSE, client |-> "client", envKey |-> TRUE]

\* get_ai_response(messages):
\*   raised   an exception left the function
\*   text     the str returned
\*   calls    the requests made to the provider, each the message list sent
\*   path     which way the function went
get_ai_response(msgs, env, call, key) ==
    LET c == get_openai_client(env, key)
    IN  IF c.raised
        THEN [raised |-> TRUE, text |-> <<>>, calls |-> <<>>, path |-> "lookup_raised",
              returned |-> None, envKey |-> c.envKey]
        ELSE IF c.client = "none"
        THEN [raised |-> FALSE, text |-> NoKeyMsg, calls |-> <<>>, path |-> "no_client",
              returned |-> None, envKey |-> c.envKey]
        ELSE LET messages_to_send == trim_messages_for_tokens(msgs, MAX_EXCHANGES)
             IN  IF c.client = "module"
                 THEN \* the pre-1.0 module has no attribute `chat`: AttributeError
                      [raised |-> FALSE, text |-> TroubleMsg, calls |-> <<>>,
                       path |-> "call_failed", returned |-> None, envKey |-> c.envKey]
                 ELSE IF call.raises
                 THEN [raised |-> FALSE, text |-> TroubleMsg,
                       calls |-> <<messages_to_send>>, path |-> "call_failed",
                       returned |-> None, envKey |-> c.envKey]
                 ELSE [raised |-> FALSE, text |-> ExtractText(call.resp),
                       calls |-> <<messages_to_send>>, path |-> "returned",
                       returned |-> IF call.resp.nchoices > 0 /\ call.resp.hasMessage
                                    THEN call.resp.content ELSE call.resp.text,
                       envKey |-> c.envKey]

----------------------------------------------------------------------------
(* One script run of main(): the sidebar, then the chat input *)

\* what st.chat_input returns in a run: None, or the text submitted
Prompts ==
    { None,
      Some(<<>>),
      Some(<<"I"," ","w","a","n","t"," ","t","o"," ","k","i","l","l"," ","m","y","s","e","l","f">>),
      Some(<<"S","U","I","C","I","D","E">>),
      Some(<<"I"," ","f","e","e","l"," ","a","n","x","i","o","u","s">>) }

\* the record of a run that did not reach the chat branch
Ran(op) ==
    [op |-> op, prior |-> Len(messages), text |-> <<>>, crisis |-> FALSE,
     calls |-> <<>>, path |-> "none", returned |-> None, raised |-> FALSE]

\* the messages the display loop renders: `messages[1:]` (lines 280-286)
Displayed(msgs) == SubSeq(msgs, 2, Len(msgs))

\* the configuration files the session is started under
SessionFiles ==
    { NoFile,
      [exists |-> TRUE, parses |-> TRUE,
       sections |-> [NoSections EXCEPT !.app =
           [kind |-> "table",
            table |-> [o \in {"crisis_hotline", "crisis_text"} |-> CustomValue]]]] }

IdleConfig ==
    /\ cfgFile = NoFile
    /\ default_config = DEFAULT_CONFIG
    /\ config = DEFAULT_CONFIG
    /\ cfgPc = "idle"
IdleTrim ==
    /\ tMessages = <<>>
    /\ tMax = 0
    /\ tResult = <<>>
    /\ tPc = "idle"
IdleMatch ==
    /\ mText = None
    /\ mResult = FALSE
    /\ mPc = "idle"
IdleSession ==
    /\ messages = <<>>
    /\ envKey = FALSE
    /\ app_config = DEFAULT_CONFIG["app"]
    /\ last = Ran("idle")

\* module import (lines 71-72) and the first initialize_session_state()
Init ==
    /\ \E f \in SessionFiles :
         app_config = load_config(f, DEFAULT_CONFIG).config["app"]
    /\ messages = initialize_session_state(app_config)
    /\ envKey \in BOOLEAN
    /\ last = Ran("start")
    /\ IdleConfig /\ IdleTrim /\ IdleMatch

\* the sidebar's text input holds a key (lines 259-262)
EnterApiKey ==
    /\ envKey' = TRUE
    /\ last' = Ran("key")
    /\ UNCHANGED <<messages, app_config, cfgVars, trimVars, matchVars>>

\* the "Clear conversation" button (lines 264-273)
ClearConversation ==
    /\ messages' = KeepSystem(messages) \o << ClearedGreeting(app_config) >>
    /\ last' = Ran("clear")
    /\ UNCHANGED <<envKey, app_config, cfgVars, trimVars, matchVars>>

\* the requests the provider may answer in a run under env: only a run that
\* obtains a client object reaches the call
CallsUnder(env, key) ==
    IF get_openai_client(env, key).client = "client" THEN Calls
    ELSE { [raises |-> TRUE, resp |-> Resp(0, FALSE, None, None)] }

\* a run in which st.chat_input returned `prompt`: the chat branch of main()
\* (lines 289-310)
ChatInput ==
    /\ Len(messages) + 2 <= MaxMsgs
    /\ \E prompt \in Prompts :
         IF ~Truthy(prompt)
         THEN /\ last' = Ran("noprompt")
              /\ UNCHANGED <<messages, envKey>>
         ELSE LET withUser == Append(messages, Msg("user", prompt.s))
              IN  IF contains_crisis_keywords(prompt)
                  THEN /\ messages' = Append(withUser,
                              Msg("assistant", handle_crisis_response(app_config)))
                       /\ last' = [op |-> "turn", prior |-> Len(messages),
                                   text |-> prompt.s, crisis |-> TRUE,
                                   calls |-> <<>>, path |-> "crisis",
                                   returned |-> None, raised |-> FALSE]
                       /\ UNCHANGED envKey
                  ELSE \E env \in Envs :
                       \E call \in CallsUnder(env, envKey) :
                         LET r == get_ai_response(withUser, env, call, envKey)
                         IN  /\ messages' = IF r.raised THEN withUser
                                            ELSE Append(withUser, Msg("assistant", r.text))
                             /\ envKey' = r.envKey
                             /\ last' = [op |-> "turn", prior |-> Len(messages),
                                         text |-> prompt.s, crisis |-> FALSE, calls |-> r.calls,
                                         path |-> r.path, returned |-> r.returned,
                                         raised |-> r.raised]
    /\ UNCHANGED <<app_config, cfgVars, trimVars, matchVars>>

Next == EnterApiKey \/ ClearConversation \/ ChatInput

Spec == Init /\ [][Next]_vars

----------------------------------------------------------------------------
(* load_config on its own: every configuration file of the model *)

InitConfig ==
    /\ cfgFile \in ConfigFiles
    /\ default_config = DEFAULT_CONFIG
    /\ config = DEFAULT_CONFIG
    /\ cfgPc = "start"
    /\ IdleSession /\ IdleTrim /\ IdleMatch

\* config = load_config("config.toml") (line 71)
LoadConfig ==
    /\ cfgPc = "start"
    /\ LET r == load_config(cfgFile, default_config)
       IN  /\ config' = r.config
           /\ default_config' = r.defaults
    /\ cfgPc' = "loaded"
    /\ UNCHANGED <<cfgFile, sessVars, trimVars, matchVars>>

NextConfig == LoadConfig

SpecConfig == InitConfig /\ [][NextConfig]_vars

----------------------------------------------------------------------------
(* trim_messages_for_tokens on its own *)

SeqsUpTo(S, n) == UNION { [1..k -> S] : k \in 0..n }

TrimContents == { <<"a">>, <<"b">> }
TrimMessages ==
    { Msg(r, c) : r \in {"system", "user", "assistant"}, c \in TrimContents }

\* one system message and 20 user and assistant messages, all different
LongStore ==
    << Msg("system", <<"s">>) >>
    \o [i \in 1..20 |->
          Msg(IF i % 2 = 1 THEN "assistant" ELSE "user", << LowerChars[i] >>)]

\* the stores given to the trimmer: at most one system message, at any place
TrimStores ==
    { st \in SeqsUpTo(TrimMessages, MaxStoreLen) :
        Cardinality({i \in 1..Len(st) : st[i].role = "system"}) <= 1 }
    \cup { LongStore }

InitTrim ==
    /\ tMessages \in TrimStores
    /\ tMax \in (0..MaxExchangesArg) \cup {MAX_EXCHANGES}
    /\ tResult = <<>>
    /\ tPc = "start"
    /\ IdleSession /\ IdleConfig /\ IdleMatch

TrimCall ==
    /\ tPc = "start"
    /\ tResult' = trim_messages_for_tokens(tMessages, tMax)
    /\ tPc' = "done"
    /\ UNCHANGED <<tMessages, tMax, sessVars, cfgVars, matchVars>>

NextTrim == TrimCall

SpecTrim == InitTrim /\ [][NextTrim]_vars

----------------------------------------------------------------------------
(* contains_crisis_keywords on its own *)

PadChars == {"x", " ", "S"}
Pads == SeqsUpTo(PadChars, MaxPad)

Capitalised(k) == [i \in 1..Len(k) |-> IF i = 1 THEN UpperChar(k[i]) ELSE k[i]]
DropLast(k) == SubSeq(k, 1, Len(k) - 1)
DropFirst(k) == SubSeq(k, 2, Len(k))
Split(k) == SubSeq(k, 1, 3) \o <<"-">> \o SubSeq(k, 4, Len(k))

\* each phrase as it is, in other cases, and broken in three ways
Mids ==
    { <<>> }
    \cup UNION { { CRISIS_KEYWORDS[j], Upper(CRISIS_KEYWORDS[j]),
                   Capitalised(CRISIS_KEYWORDS[j]), DropLast(CRISIS_KEYWORDS[j]),
                   DropFirst(CRISIS_KEYWORDS[j]), Split(CRISIS_KEYWORDS[j]) } :
                 j \in 1..Len(CRISIS_KEYWORDS) }

MatchInputs ==
    { None } \cup { Some(pre \o mid \o post) : pre \in Pads, mid \in Mids, post \in Pads }

InitMatch ==
    /\ mText \in MatchInputs
    /\ mResult = FALSE
    /\ mPc = "start"
    /\ IdleSession /\ IdleConfig /\ IdleTrim

MatchCall ==
    /\ mPc = "start"
    /\ mResult' = contains_crisis_keywords(mText)
    /\ mPc' = "done"
    /\ UNCHANGED <<mText, sessVars, cfgVars, trimVars>>

NextMatch == MatchCall

SpecMatch == InitMatch /\ [][NextMatch]_vars

----------------------------------------------------------------------------
(* Properties *)

LastMsg == messages[Len(messages)]

\* two characters that differ at most in case
EqIgnoreCase(a, b) ==
    \/ a = b
    \/ \E n \in 1..Len(UpperChars) : {a, b} = {UpperChars[n], LowerChars[n]}

\* some crisis phrase occurs in s, at any position, in any case
KeywordOccurs(s) ==
    \E j \in 1..Len(CRISIS_KEYWORDS) :
      LET k == CRISIS_KEYWORDS[j]
      IN  \E i \in 1..Len(s) :
            /\ i + Len(k) - 1 <= Len(s)
            /\ \A m \in 1..Len(k) : EqIgnoreCase(s[i + m - 1], k[m])

\* x is one of the elements of the text c
Holds(c, x) == \E i \in 1..Len(c) : c[i] = x

\* C1: a turn whose text holds a crisis phrase (any case, any position) ends
\* with the fixed crisis message as the Assistant reply, the message holds the
\* configured hotline and text line, and the run made no provider request.
C1_CrisisBypassesProvider ==
    (last.op = "turn" /\ KeywordOccurs(last.text)) =>
        /\ ~last.raised
        /\ last.calls = <<>>
        /\ LastMsg = Msg("assistant", handle_crisis_response(app_config))
        /\ Holds(LastMsg.content, app_config["crisis_hotline"])
        /\ Holds(LastMsg.content, app_config["crisis_text"])

\* an upper-case crisis text was handled under a configured hotline
C1_Witness ==
    /\ last.op = "turn"
    /\ last.text = <<"S","U","I","C","I","D","E">>
    /\ last.crisis
    /\ app_config["crisis_hotline"] = CustomValue
    /\ LastMsg.role = "assistant"

\* C2: in a turn without crisis phrase in which the provider returned a text,
\* the Assistant message appended is exactly that text, the empty text included.
C2_ReplyEqualsReturnedText ==
    (/\ last.op = "turn"
     /\ ~KeywordOccurs(last.text)
     /\ last.path = "returned"
     /\ ~last.returned.none) =>
        LastMsg = Msg("assistant", last.returned.s)

\* the snapshot as the specification words it: the system message, then the
\* last k messages that are not the system message
ExpectedSnapshot(st, k) ==
    LET others == SelectSeq(st, NotSystem)
        n == Len(others)
    IN  SelectSeq(st, IsSystem) \o SubSeq(others, IF n > k THEN n - k + 1 ELSE 1, n)

\* C3: for every store and every max_turns >= 0 the snapshot is the System
\* message followed by the last max_turns other messages in their order (all
\* of them when there are fewer); 1 + 20 messages and max_turns = 6 give 7.
C3_SnapshotIsSystemPlusLastTurns ==
    tPc = "done" =>
        /\ tResult = ExpectedSnapshot(tMessages, tMax)
        /\ (tMessages = LongStore /\ tMax = MAX_EXCHANGES =>
                Len(tResult) = MAX_EXCHANGES + 1)

\* C4: the store always holds exactly one System message, at its first place,
\* so the display loop shows every other message and never the System one.
C4_OneSystemMessageFirst ==
    /\ Len(messages) >= 1
    /\ messages[1].role = "system"
    /\ \A i \in 2..Len(messages) : messages[i].role \in {"user", "assistant"}
    /\ Displayed(messages) = SelectSeq(messages, NotSystem)

\* turns were taken after a clear, the last one left without a reply
C4_Witness ==
    /\ last.op = "turn"
    /\ last.raised
    /\ Len(messages) >= 6
    /\ messages[2] = ClearedGreeting(app_config)

\* C5: after a clear the store is two messages: the System message of the
\* session start and the new greeting.
C5_ClearLeavesSystemAndGreeting ==
    last.op = "clear" =>
        /\ Len(messages) = 2
        /\ messages[1] = Msg("system", system_prompt(app_config))
        /\ messages[2] = ClearedGreeting(app_config)

\* a clear of a store of at least nine messages
C5_Witness ==
    /\ last.op = "clear"
    /\ last.prior >= MaxMsgs - 1
    /\ Len(messages) = 2

\* C6: a turn without crisis phrase in which no client could be had (SDK
\* missing, no credential, construction failed, credential lookup failed) or
\* the request failed still ends with a fixed Assistant message, and no error
\* leaves the run.
C6_ProviderFailureGivesFixedMessage ==
    (/\ last.op = "turn"
     /\ ~KeywordOccurs(last.text)
     /\ last.path \in {"lookup_raised", "no_client", "call_failed"}) =>
        /\ ~last.raised
        /\ LastMsg.role = "assistant"
        /\ LastMsg.content \in {NoKeyMsg, TroubleMsg}

\* C7: every handled turn appends exactly a User message with the text and
\* then one Assistant message, and leaves every earlier message as it was.
C7_TurnAppendsUserThenAssistant ==
    [][last'.op = "turn" =>
        /\ Len(messages') = Len(messages) + 2
        /\ SubSeq(messages', 1, Len(messages)) = messages
        /\ messages'[Len(messages) + 1] = Msg("user", last'.text)
        /\ messages'[Len(messages) + 2].role = "assistant"]_vars

\* C8: the matcher answers TRUE exactly when a phrase of the list occurs as a
\* contiguous part of the lower-cased text, and FALSE for None and for "".
C8_MatcherIsSubstringContainment ==
    mPc = "done" =>
        /\ mResult <=>
             \E j \in 1..Len(CRISIS_KEYWORDS) :
               \E i \in 1..Len(mText.s) :
                 /\ i + Len(CRISIS_KEYWORDS[j]) - 1 <= Len(mText.s)
                 /\ SubSeq(Lower(mText.s), i, i + Len(CRISIS_KEYWORDS[j]) - 1)
                      = CRISIS_KEYWORDS[j]
        /\ (mText.none \/ mText.s = <<>>) => ~mResult

\* an upper-case phrase found after the first character of the text
C8_Witness ==
    /\ mPc = "done"
    /\ mResult
    /\ mText = Some(<<"x">> \o Upper(CRISIS_KEYWORDS[2]) \o <<" ">>)

\* the file is malformed: it does not parse, or a section is not a table
Malformed(file) ==
    file.exists /\ (~file.parses \/ \E s \in DOMAIN file.sections :
                                       file.sections[s].kind = "scalar")

\* C9: a malformed file gives the built-in default of every option, also in
\* the sections read before the malformed one; a well-formed file gives the
\* default of every option it does not set.
C9_MalformedFallsBackToDefaults ==
    cfgPc = "loaded" =>
        /\ Malformed(cfgFile) => config = DEFAULT_CONFIG
        /\ ~Malformed(cfgFile) =>
             \A s \in DOMAIN DEFAULT_CONFIG : \A o \in DOMAIN DEFAULT_CONFIG[s] :
               o \notin DOMAIN cfgFile.sections[s].table =>
                 config[s][o] = DEFAULT_CONFIG[s][o]

\* C10: a turn makes at most one provider request; the list it sends starts
\* with the System message, ends with the User message of this turn, which is
\* already in the store, and holds at most 7 messages.
C10_OneRequestWithBoundedSnapshot ==
    last.op = "turn" =>
        /\ Len(last.calls) <= 1
        /\ \A n \in 1..Len(last.calls) :
             LET sent == last.calls[n]
             IN  /\ ~last.crisis
                 /\ Len(sent) <= MAX_EXCHANGES + 1
                 /\ sent[1] = messages[1]
                 /\ sent[1].role = "system"
                 /\ sent[Len(sent)] = Msg("user", last.text)
                 /\ sent[Len(sent)] = messages[last.prior + 1]

\* a request was made from a store longer than the snapshot
C10_Witness ==
    /\ last.op = "turn"
    /\ Len(last.calls) = 1
    /\ Len(last.calls[1]) = MAX_EXCHANGES + 1
    /\ last.prior >= MAX_EXCHANGES + 2

====
